---- MODULE Spec2Model ----
(***************************************************************************)
(* A model of the artwork generation engine of treat-toolbox               *)
(* (functions/src/ArtworkGenerator.ts): the rarity-weighted sampler, the    *)
(* conflict resolver, the layer planner and the per-item batch loop.        *)
(* Rarities and random fractions are scaled by 10^4 (the sampler's          *)
(* precision), so that they are integers.                                   *)
(***************************************************************************)
EXTENDS Integers, Sequences, FiniteSets, TLC

VARIABLES
  \* ---- what the readers return for the run's scope (never written) ----
  traits,            \* Traits.all: sequence of Trait
  dbTraitValues,     \* TraitValues.all per trait id: sequence of TraitValue
  imageLayers,       \* ImageLayers.all: sequence of ImageLayer
  conflicts,         \* Conflicts.all: sequence of Conflict, in stored order
  startIndex, endIndex, supply,
  isFirstBatchInTraitSet,
  missingAssets,     \* ids of the image layers whose bucket file cannot be downloaded
  \* ---- the staging storage of the run ----
  stagingDir,        \* whether the project download directory exists
  stagingFiles,      \* ids of the image layers whose file is in the layer directory
  fsOps,             \* the directory operations of this call, in order
  \* ---- generate() ----
  pc,                \* position of the generate call
  traitValues,       \* the in-memory candidate pools, by trait id
  i,                 \* the loop index of generate
  composites,        \* the sequence generate returns
  store,             \* the ImageComposite records persisted for the compositeGroup
  returned,          \* generate's return value, once it returned
  \* ---- generateArtworkForItem() ----
  traitValuePairs,   \* the draw, rewritten in place by resolveConflicts
  hasUnusedTraitValuePair,
  retriesRemaining,
  ci,                \* resolveConflicts' loop index (1-based)
  orderedLayers,     \* the planner's ordered (imageLayer, zIndex) entries
  compositeData,     \* what generateArtworkForItem returned
  inputFilePaths,    \* the paths handed to compositeImages
  \* ---- a concurrent generate call of another batch of the compositeGroup ----
  oPc, oTraitValues, oCompositeData, oRecorded,
  \* ---- one call of randomValue on its own ----
  sValues, sAlwaysUnique, sExclude, sResult, sDraws, sPc,
  sRandom,           \* the random number of one walk of randomValue
  \* ---- the trait-value create page ----
  cPc,               \* "form" until the form is submitted
  cIsAlwaysUnique,   \* props.trait.isAlwaysUnique
  cRarityField,      \* the text of the rarity field, <<text>>, or <<>> without the field
  cTraitValues       \* the trait values TraitValues.create has stored

vars == <<traits, dbTraitValues, imageLayers, conflicts, startIndex, endIndex,
          supply, isFirstBatchInTraitSet, missingAssets,
          stagingDir, stagingFiles, fsOps,
          pc, traitValues, i, composites, store, returned,
          traitValuePairs, hasUnusedTraitValuePair, retriesRemaining, ci,
          orderedLayers, compositeData, inputFilePaths,
          oPc, oTraitValues, oCompositeData, oRecorded,
          sValues, sAlwaysUnique, sExclude, sResult, sDraws, sPc, sRandom,
          cPc, cIsAlwaysUnique, cRarityField, cTraitValues>>

createVars == <<cPc, cIsAlwaysUnique, cRarityField, cTraitValues>>
configVars == <<traits, dbTraitValues, imageLayers, conflicts, startIndex,
                endIndex, supply, isFirstBatchInTraitSet, missingAssets>>
stagingVars == <<stagingDir, stagingFiles, fsOps>>
otherVars == <<oPc, oTraitValues, oCompositeData, oRecorded>>
samplerVars == <<sValues, sAlwaysUnique, sExclude, sResult, sDraws, sPc, sRandom>>

----------------------------------------------------------------------------
(* Values of the data model.  null and undefined are the id "null": the    *)
(* code only ever tests them with ?., == null and truthiness.               *)

NullId == "null"
Null == [id |-> NullId]

IdOf(x) == x.id

\* TRAITVALUES_RARITY_MAX_PRECISION
TRAITVALUES_RARITY_MAX_PRECISION == 4

RECURSIVE Pow10(_)
Pow10(n) == IF n = 0 THEN 1 ELSE 10 * Pow10(n - 1)

\* max in randomNumber: Math.pow(10, digitsPrecision)
RandomMax == Pow10(TRAITVALUES_RARITY_MAX_PRECISION)

Range(s) == {s[k] : k \in 1..Len(s)}

\* Array.prototype.findIndex, 1-based, on the sequence of the callback's
\* results; 0 stands for -1 (not found)
FindIndex(found) ==
  IF \E k \in 1..Len(found) : found[k]
  THEN CHOOSE k \in 1..Len(found) : found[k] /\ \A j \in 1..(k - 1) : ~found[j]
  ELSE 0

\* Array.prototype.sort with the comparator of lines 604-609 and 643-648:
\* ascending in the key, stable (equal keys compare 0 and keep their order).
\* SortedOrder(keys) is the order of the positions of keys after the sort.
RECURSIVE InsertPosition(_, _, _)
InsertPosition(order, n, keys) ==
  IF order = <<>> THEN <<n>>
  ELSE IF keys[n] < keys[order[Len(order)]]
       THEN Append(InsertPosition(SubSeq(order, 1, Len(order) - 1), n, keys),
                   order[Len(order)])
       ELSE Append(order, n)

RECURSIVE SortedOrderUpTo(_, _)
SortedOrderUpTo(keys, n) ==
  IF n = 0 THEN <<>> ELSE InsertPosition(SortedOrderUpTo(keys, n - 1), n, keys)

SortedOrder(keys) == SortedOrderUpTo(keys, Len(keys))

StableSort(s, keys) == [k \in 1..Len(s) |-> s[SortedOrder(keys)[k]]]

----------------------------------------------------------------------------
(* RarityWeightedSampler: randomNumber and randomValue                      *)

\* the numbers randomNumber can return, scaled by RandomMax: rand(0, max)
RandomNumberRange == 0..RandomMax

RECURSIVE CumulativeRarity(_, _)
CumulativeRarity(values, k) ==
  IF k = 0 THEN 0 ELSE CumulativeRarity(values, k - 1) + values[k].rarity

\* The walk compares the random number with the cumulative rarities only, so
\* one number on each side of every cumulative rarity, with both ends of the
\* range, stands for every number randomNumber can return.
RandomNumbers(values) ==
  ({0, RandomMax}
     \cup {CumulativeRarity(values, k) : k \in 1..Len(values)}
     \cup {CumulativeRarity(values, k) + 1 : k \in 1..Len(values)})
  \cap RandomNumberRange

\* a variant whose comparison is strict
RECURSIVE WalkFromStrict(_, _, _, _)
WalkFromStrict(values, randomNumber, segment, totalRarityRangeMax) ==
  IF segment > Len(values) THEN Null
  ELSE LET total == totalRarityRangeMax + values[segment].rarity
       IN IF randomNumber < total THEN values[segment]
          ELSE WalkFromStrict(values, randomNumber, segment + 1, total)

\* the walk through the segments, lines 539-552
RECURSIVE WalkFrom(_, _, _, _)
WalkFrom(values, randomNumber, segment, totalRarityRangeMax) ==
  IF segment > Len(values) THEN Null
  ELSE LET total == totalRarityRangeMax + values[segment].rarity
       IN IF randomNumber <= total THEN values[segment]
          ELSE WalkFrom(values, randomNumber, segment + 1, total)

Walk(values, randomNumber) == WalkFrom(values, randomNumber, 1, 0)

\* maxAttempts in randomValue
maxAttempts == 10

\* the always-unique path: values[Math.floor(Math.random() * values.length)],
\* whatever excludeTraitValueId is; undefined when values is empty
AlwaysUniqueRuns(values) ==
  IF values = <<>> THEN {[value |-> Null, draws |-> 1]}
  ELSE {[value |-> values[k], draws |-> 1] : k \in 1..Len(values)}

\* the do-while of the rarity-weighted path entered with `attempts` draws made
RECURSIVE RarityRuns(_, _, _)
RarityRuns(values, excludeTraitValueId, attempts) ==
  IF attempts = maxAttempts THEN {[value |-> Null, draws |-> attempts]}
  ELSE LET drawn == {Walk(values, r) : r \in RandomNumbers(values)}
           again(v) == excludeTraitValueId # NullId /\ IdOf(v) = excludeTraitValueId
       IN {[value |-> v, draws |-> attempts + 1] : v \in {w \in drawn : ~again(w)}}
          \cup (IF \E v \in drawn : again(v)
                THEN RarityRuns(values, excludeTraitValueId, attempts + 1)
                ELSE {})

\* every run of randomValue: the value returned and the draws it took
RandomValueRuns(values, isTraitAlwaysUnique, excludeTraitValueId) ==
  IF isTraitAlwaysUnique THEN AlwaysUniqueRuns(values)
  ELSE RarityRuns(values, excludeTraitValueId, 0)

RandomValue(values, isTraitAlwaysUnique, excludeTraitValueId) ==
  {run.value : run \in RandomValueRuns(values, isTraitAlwaysUnique, excludeTraitValueId)}

\* randomTraitValues: one randomValue per trait, in the order of traits
RECURSIVE RandomTraitValuesUpTo(_, _, _)
RandomTraitValuesUpTo(ts, pools, n) ==
  IF n = 0 THEN {<<>>}
  ELSE {Append(front, [trait |-> ts[n], traitValue |-> v, imageLayer |-> Null]) :
          front \in RandomTraitValuesUpTo(ts, pools, n - 1),
          v \in RandomValue(pools[ts[n].id], ts[n].isAlwaysUnique, NullId)}

RandomTraitValues(ts, pools) == RandomTraitValuesUpTo(ts, pools, Len(ts))

----------------------------------------------------------------------------
(* ConflictResolver: one iteration of resolveConflicts' loop                *)

Trait1Index(pairs, conflict) ==
  FindIndex([j \in 1..Len(pairs) |-> pairs[j].trait.id = conflict.trait1Id])

Trait2Index(pairs, conflict) ==
  FindIndex([j \in 1..Len(pairs) |-> pairs[j].trait.id = conflict.trait2Id])

Trait1ValueIndex(pairs, conflict) ==
  FindIndex([j \in 1..Len(pairs) |-> pairs[j].trait.id = conflict.trait1Id
                                  /\ IdOf(pairs[j].traitValue) = conflict.trait1ValueId])

Trait2ValueIndex(pairs, conflict) ==
  FindIndex([j \in 1..Len(pairs) |-> pairs[j].trait.id = conflict.trait2Id
                                  /\ IdOf(pairs[j].traitValue) = conflict.trait2ValueId])

\* a variant that forgets the check of trait2ValueId
ConflictMatchesTrait1Only(pairs, conflict) ==
  /\ Trait1Index(pairs, conflict) # 0
  /\ Trait2Index(pairs, conflict) # 0
  /\ conflict.trait1ValueId # NullId => Trait1ValueIndex(pairs, conflict) # 0

\* none of the four `continue`s of lines 380-412 is taken
ConflictMatches(pairs, conflict) ==
  /\ Trait1Index(pairs, conflict) # 0
  /\ Trait2Index(pairs, conflict) # 0
  /\ conflict.trait1ValueId # NullId => Trait1ValueIndex(pairs, conflict) # 0
  /\ conflict.trait2ValueId # NullId => Trait2ValueIndex(pairs, conflict) # 0

\* a variant whose Trait1None and Trait2None take the pair out of the draw
ApplyResolutionRemovingPair(pairs, conflict, pools) ==
  LET trait1Index == Trait1Index(pairs, conflict)
      trait2Index == Trait2Index(pairs, conflict)
  IN CASE conflict.resolutionType = "Trait1None" ->
            {SubSeq(pairs, 1, trait1Index - 1) \o SubSeq(pairs, trait1Index + 1, Len(pairs))}
       [] conflict.resolutionType = "Trait2None" ->
            {SubSeq(pairs, 1, trait2Index - 1) \o SubSeq(pairs, trait2Index + 1, Len(pairs))}
       [] OTHER -> {pairs}

\* the switch of lines 429-458: every draw the iteration can leave behind
ApplyResolution(pairs, conflict, pools) ==
  LET trait1Index == Trait1Index(pairs, conflict)
      trait2Index == Trait2Index(pairs, conflict)
      pair1 == pairs[trait1Index]
      pair2 == pairs[trait2Index]
  IN CASE conflict.resolutionType = "Trait1None" ->
            {[pairs EXCEPT ![trait1Index].traitValue = Null]}
       [] conflict.resolutionType = "Trait2None" ->
            {[pairs EXCEPT ![trait2Index].traitValue = Null]}
       [] conflict.resolutionType = "Trait1Random" ->
            {[pairs EXCEPT ![trait1Index].traitValue = newRandomValue1] :
               newRandomValue1 \in RandomValue(pools[pair1.trait.id],
                                               pair1.trait.isAlwaysUnique,
                                               IdOf(pair1.traitValue))}
       [] conflict.resolutionType = "Trait2Random" ->
            {[pairs EXCEPT ![trait2Index].traitValue = newRandomValue2] :
               newRandomValue2 \in RandomValue(pools[pair2.trait.id],
                                               pair2.trait.isAlwaysUnique,
                                               IdOf(pair2.traitValue))}
       [] OTHER -> {pairs}

ResolveConflict(pairs, conflict, pools) ==
  IF ConflictMatches(pairs, conflict)
  THEN ApplyResolution(pairs, conflict, pools)
  ELSE {pairs}

\* resolveConflicts from its iteration k on: every draw it can return
RECURSIVE ResolveConflictsFrom(_, _, _, _)
ResolveConflictsFrom(pairs, cs, pools, k) ==
  IF k > Len(cs) THEN {pairs}
  ELSE UNION {ResolveConflictsFrom(rewritten, cs, pools, k + 1) :
                rewritten \in ResolveConflict(pairs, cs[k], pools)}

ResolveConflicts(pairs, cs, pools) == ResolveConflictsFrom(pairs, cs, pools, 1)

----------------------------------------------------------------------------
(* UniquenessRegistry (models/models.ts, not among the source files)        *)

\* ImageComposites.traitsHash: a canonical encoding of the
\* (traitId, traitValueId | null) pairs, independent of their order
TraitsHash(pairs) == {<<pair.trait.id, IdOf(pair.traitValue)>> : pair \in Range(pairs)}

\* ImageComposites.isUniqueTraitsHash: no record of the compositeGroup has the hash
IsUniqueTraitsHash(hash, records) == \A c \in Range(records) : c.traitsHash # hash

\* ImageComposites.create: stores the composite and returns it
CreateComposite(data) == data

----------------------------------------------------------------------------
(* LayerCompositionPlanner                                                  *)

\* a variant that looks the dictionary up for a null trait value too
ImageLayerForAnyKey(traitValueId, layers) ==
  IF \E k \in 1..Len(layers) : layers[k].traitValueId = traitValueId
  THEN layers[CHOOSE k \in 1..Len(layers) :
                 /\ layers[k].traitValueId = traitValueId
                 /\ \A j \in (k + 1)..Len(layers) : layers[j].traitValueId # traitValueId]
  ELSE Null

\* traitValueIdToImageLayers[traitValueId] ?? null: the dictionary of lines
\* 79-85 keeps, for a trait value, the last image layer that names it
ImageLayerFor(traitValueId, layers) ==
  IF traitValueId # NullId /\ \E k \in 1..Len(layers) : layers[k].traitValueId = traitValueId
  THEN layers[CHOOSE k \in 1..Len(layers) :
                 /\ layers[k].traitValueId = traitValueId
                 /\ \A j \in (k + 1)..Len(layers) : layers[j].traitValueId # traitValueId]
  ELSE Null

\* lines 276-284
WithImageLayers(pairs, layers) ==
  [k \in 1..Len(pairs) |->
     [pairs[k] EXCEPT !.imageLayer = ImageLayerFor(IdOf(pairs[k].traitValue), layers)]]

SortTraitValuePairs(pairs) ==
  StableSort(pairs, [k \in 1..Len(pairs) |-> pairs[k].trait.zIndex])

\* what one pair pushes onto imageLayerPairs, lines 619-640.  An optional
\* z-index is <<>> (null) or <<z>>.
EmittedBy(pair, layers) ==
  IF pair.imageLayer = Null THEN <<>>
  ELSE LET companionId == pair.imageLayer.companionLayerId
           companionZIndex == pair.imageLayer.companionLayerZIndex
           found == FindIndex([j \in 1..Len(layers) |-> layers[j].id = companionId])
       IN <<[imageLayer |-> pair.imageLayer, zIndex |-> pair.trait.zIndex]>>
          \o (IF companionId # NullId /\ companionZIndex # <<>> /\ found # 0
              THEN <<[imageLayer |-> layers[found], zIndex |-> companionZIndex[1]]>>
              ELSE <<>>)

RECURSIVE ImageLayerPairsUpTo(_, _, _)
ImageLayerPairsUpTo(pairs, layers, n) ==
  IF n = 0 THEN <<>>
  ELSE ImageLayerPairsUpTo(pairs, layers, n - 1) \o EmittedBy(pairs[n], layers)

\* imageLayerPairs after the forEach
ImageLayerPairs(pairs, layers) == ImageLayerPairsUpTo(pairs, layers, Len(pairs))

\* a variant that leaves each companion next to its parent
UnsortedImageLayerPairs(emitted) == emitted

\* the sort of lines 643-648
SortImageLayerPairs(emitted) ==
  StableSort(emitted, [k \in 1..Len(emitted) |-> emitted[k].zIndex])

\* orderedImageLayerPairs
OrderedImageLayerPairs(pairs, layers) == SortImageLayerPairs(ImageLayerPairs(pairs, layers))

SortedImageLayersInjectingCompanions(pairs, layers) ==
  LET ordered == OrderedImageLayerPairs(pairs, layers)
  IN [k \in 1..Len(ordered) |-> ordered[k].imageLayer]

----------------------------------------------------------------------------
(* BatchOrchestrator helpers                                                *)

\* values.splice(matchingValueIndex, 1)
RemoveAt(s, k) == SubSeq(s, 1, k - 1) \o SubSeq(s, k + 1, Len(s))

RECURSIVE RemoveUsedUpTo(_, _, _, _)
RemoveUsedUpTo(ts, pools, composite, n) ==
  IF n = 0 THEN pools
  ELSE LET before == RemoveUsedUpTo(ts, pools, composite, n - 1)
           trait == ts[n]
           values == before[trait.id]
           pairIndex == FindIndex([j \in 1..Len(composite.traits) |->
                                     composite.traits[j].trait.id = trait.id])
           compositeValueId == IF pairIndex = 0 THEN NullId
                               ELSE IdOf(composite.traits[pairIndex].traitValue)
           matchingValueIndex == FindIndex([j \in 1..Len(values) |-> values[j].id = compositeValueId])
       IN IF trait.isAlwaysUnique /\ matchingValueIndex # 0
          THEN [before EXCEPT ![trait.id] = RemoveAt(values, matchingValueIndex)]
          ELSE before

\* a variant that forgets the splice
RemoveUsedWithoutSplice(ts, pools, composite) == pools

RemoveUsedAlwaysUniqueTraitValues(ts, pools, composite) ==
  RemoveUsedUpTo(ts, pools, composite, Len(ts))

----------------------------------------------------------------------------
(* The configurations explored.  Rarities are scaled by RandomMax.          *)

\* the largest endIndex and supply explored
MaxIndex == 3
\* the longest conflict list explored
MaxConflicts == 2

Half == RandomMax \div 2

\* the rarity the create page stores for a value of an always-unique trait,
\* create.tsx line 45: -1
AlwaysUniqueRarity == 0 - RandomMax

Trait(id, zIndex, isAlwaysUnique) ==
  [id |-> id, zIndex |-> zIndex, isAlwaysUnique |-> isAlwaysUnique]

TraitValue(id, rarity) == [id |-> id, rarity |-> rarity]

ImageLayer(id, traitValueId, companionLayerId, companionLayerZIndex) ==
  [id |-> id, traitValueId |-> traitValueId,
   companionLayerId |-> companionLayerId,
   companionLayerZIndex |-> companionLayerZIndex]

Conflict(trait1Id, trait1ValueId, trait2Id, trait2ValueId, resolutionType) ==
  [trait1Id |-> trait1Id, trait1ValueId |-> trait1ValueId,
   trait2Id |-> trait2Id, trait2ValueId |-> trait2ValueId,
   resolutionType |-> resolutionType]

ConflictResolutionType == {"Trait1None", "Trait2None", "Trait1Random", "Trait2Random"}

\* the batch of index 0 is the first batch of its trait set, and every
\* bucket file can be downloaded, unless WithMissingAssets says otherwise
Config(ts, values, layers, cs, start, end, sup) ==
  [traits |-> ts, traitValues |-> values, imageLayers |-> layers,
   conflicts |-> cs, startIndex |-> start, endIndex |-> end, supply |-> sup,
   isFirstBatchInTraitSet |-> (start = 0), missingAssets |-> {}]

WithMissingAssets(cfg, missing) == [cfg EXCEPT !.missingAssets = missing]

PlainLayer(id, traitValueId) == ImageLayer(id, traitValueId, NullId, <<>>)

PlainLayers ==
  <<PlainLayer("la1", "a1"), PlainLayer("la2", "a2"),
    PlainLayer("lb1", "b1"), PlainLayer("lb2", "b2")>>

ValuesOfA(isAlwaysUnique) ==
  IF isAlwaysUnique
  THEN <<TraitValue("a1", AlwaysUniqueRarity), TraitValue("a2", AlwaysUniqueRarity)>>
  ELSE <<TraitValue("a1", Half), TraitValue("a2", Half)>>

\* conflicts between trait A and trait B, and one naming a trait of no draw
ConflictSet ==
  {Conflict("A", v[1], "B", v[2], r) :
     v \in {<<NullId, NullId>>, <<"a1", "b1">>}, r \in ConflictResolutionType}
  \cup {Conflict("B", "b1", "A", NullId, "Trait2Random"),
        Conflict("A", NullId, "C", NullId, "Trait1None")}

ConflictLists ==
  UNION {[1..n -> ConflictSet] : n \in 0..MaxConflicts}

\* two traits, trait A always-unique or not, every conflict list: two items
\* under the lists of up to two conflicts, one item under the longer ones
ConflictConfigs ==
  {Config(<<Trait("A", 1, au), Trait("B", 2, FALSE)>>,
          [tid \in {"A", "B"} |->
             IF tid = "A" THEN ValuesOfA(au)
             ELSE <<TraitValue("b1", Half), TraitValue("b2", Half)>>],
          PlainLayers, cs, 0, IF Len(cs) <= 2 THEN 2 ELSE 1, MaxIndex) :
     au \in BOOLEAN, cs \in ConflictLists}

\* the companions a layer may declare: none, the companion-only layer lc
\* below, between or above the traits, an id without a z-index, a layer
\* that is also another value's layer, and a layer absent from the catalog
CompanionChoices ==
  {<<NullId, <<>>>>, <<"lc", <<0>>>>, <<"lc", <<2>>>>, <<"lc", <<4>>>>,
   <<"lc", <<>>>>, <<"lb1", <<4>>>>, <<"lx", <<1>>>>}

\* two rarity-weighted traits in either z order, trait B drawn as null half
\* of the time, companions on the layers of a1 and b1, no conflict
LayerConfigs ==
  {Config(<<Trait("A", zA, FALSE), Trait("B", 2, FALSE)>>,
          [tid \in {"A", "B"} |->
             IF tid = "A" THEN ValuesOfA(FALSE) ELSE <<TraitValue("b1", Half)>>],
          <<ImageLayer("la1", "a1", ca[1], ca[2]), PlainLayer("la2", "a2"),
            ImageLayer("lb1", "b1", cb[1], cb[2]), PlainLayer("lc", NullId)>>,
          <<>>, 0, 1, MaxIndex) :
     zA \in {1, 3}, ca \in CompanionChoices,
     cb \in {<<NullId, <<>>>>, <<"lc", <<1>>>>, <<"lc", <<3>>>>}}

IndexRanges ==
  {r \in (0..MaxIndex) \X (0..MaxIndex) \X (0..MaxIndex) : r[1] <= r[2] /\ r[2] <= r[3]}

\* one trait, with one or two values, over every index range and supply
RangeConfigs ==
  {Config(<<Trait("A", 1, au)>>, [tid \in {"A"} |-> values], PlainLayers, <<>>,
          r[1], r[2], r[3]) :
     au \in {FALSE}, r \in IndexRanges,
     values \in {<<TraitValue("a1", RandomMax)>>, <<TraitValue("a1", Half)>>,
                 <<TraitValue("a1", Half), TraitValue("a2", Half)>>,
                 <<TraitValue("a1", 0), TraitValue("a2", Half)>>}}
  \cup
  {Config(<<Trait("A", 1, TRUE)>>, [tid \in {"A"} |-> ValuesOfA(TRUE)], PlainLayers,
          <<>>, r[1], r[2], r[3]) : r \in IndexRanges}

\* scopes with no traits, with no trait values and with no image layers
GuardConfigs ==
  {Config(<<>>, <<>>, layers, <<>>, start, 2, sup) :
     layers \in {<<>>, PlainLayers}, start \in {0, 1}, sup \in {2, MaxIndex}}
  \cup
  {Config(<<Trait("A", 1, au)>>, [tid \in {"A"} |-> <<>>], PlainLayers, <<>>,
          0, 2, sup) : au \in BOOLEAN, sup \in {2, MaxIndex}}
  \cup
  {Config(<<Trait("A", 1, au)>>, [tid \in {"A"} |-> ValuesOfA(au)], <<>>, <<>>,
          0, 2, sup) : au \in BOOLEAN, sup \in {2, MaxIndex}}

\* one or two traits whose layers la1, or la1 and la2, cannot be downloaded
DownloadConfigs ==
  {WithMissingAssets(
     Config(ts, [tid \in {"A", "B"} |->
                   IF tid = "A" THEN ValuesOfA(FALSE) ELSE <<TraitValue("b1", Half)>>],
            PlainLayers, <<>>, r[1], r[2], r[3]),
     missing) :
     ts \in {<<Trait("A", 1, FALSE)>>, <<Trait("A", 1, FALSE), Trait("B", 2, FALSE)>>},
     r \in {<<0, 1, 1>>, <<0, 1, MaxIndex>>, <<1, 2, MaxIndex>>},
     missing \in {{"la1"}, {"la1", "la2"}}}

Configs ==
  ConflictConfigs \cup LayerConfigs \cup RangeConfigs \cup GuardConfigs
  \cup DownloadConfigs

----------------------------------------------------------------------------
(* generate() and generateArtworkForItem()                                  *)

\* numRetries in generateArtworkForItem
numRetries == 20

\* downloadPathForImageLayer, named by the id of the layer
DownloadPathForImageLayer(imageLayer) == imageLayer.id

\* outside generateArtworkForItem its locals do not exist
NoItem ==
  /\ traitValuePairs = <<>>
  /\ hasUnusedTraitValuePair = FALSE
  /\ retriesRemaining = 0
  /\ ci = 0
  /\ orderedLayers = <<>>
  /\ compositeData = Null
  /\ inputFilePaths = <<>>

\* generateArtworkForItem has returned
LeaveItem ==
  /\ traitValuePairs' = <<>>
  /\ hasUnusedTraitValuePair' = FALSE
  /\ retriesRemaining' = 0
  /\ ci' = 0
  /\ orderedLayers' = <<>>
  /\ compositeData' = Null
  /\ inputFilePaths' = <<>>

SamplerIdle ==
  /\ sValues = <<>>
  /\ sAlwaysUnique = FALSE
  /\ sExclude = NullId
  /\ sResult = Null
  /\ sDraws = 0
  /\ sPc = "idle"
  /\ sRandom = 0

\* the create page is not open
CreateIdle ==
  /\ cPc = "idle"
  /\ cIsAlwaysUnique = FALSE
  /\ cRarityField = <<>>
  /\ cTraitValues = <<>>

\* no other call of generate runs
OtherIdle ==
  /\ oPc = "idle"
  /\ oTraitValues = <<>>
  /\ oCompositeData = Null
  /\ oRecorded = 0

LayerIds(layers) == {layers[n].id : n \in 1..Len(layers)}

\* what downloadImageFile leaves in the layer directory, lines 582-601
Downloaded(layers, missing) == LayerIds(layers) \ missing

\* generate has not been called yet, for a configuration of `configs`.  The
\* batches before this one have run: the batch of index 0 created the staging
\* directories, the first batch of the trait set downloaded the layers.
RunInit(configs) ==
  /\ \E cfg \in configs :
       /\ traits = cfg.traits
       /\ dbTraitValues = cfg.traitValues
       /\ imageLayers = cfg.imageLayers
       /\ conflicts = cfg.conflicts
       /\ startIndex = cfg.startIndex
       /\ endIndex = cfg.endIndex
       /\ supply = cfg.supply
       /\ isFirstBatchInTraitSet = cfg.isFirstBatchInTraitSet
       /\ missingAssets = cfg.missingAssets
       /\ stagingDir = (cfg.startIndex > 0)
       /\ stagingFiles = IF cfg.isFirstBatchInTraitSet THEN {}
                         ELSE Downloaded(cfg.imageLayers, cfg.missingAssets)
  /\ fsOps = <<>>
  /\ pc = "start"
  /\ traitValues = <<>>
  /\ i = 0
  /\ composites = <<>>
  /\ store = <<>>
  /\ returned = <<>>
  /\ NoItem
  /\ CreateIdle
  /\ SamplerIdle

InitOver(configs) == RunInit(configs) /\ OtherIdle

Init == InitOver(Configs)

itemVars == <<traitValuePairs, hasUnusedTraitValuePair, retriesRemaining, ci,
              orderedLayers, compositeData, inputFilePaths>>

\* lines 58-166: the readers, the prefetch of the trait values, the staging
\* directories, the download of the layers, the guard clauses.
\* Object.values(traitValues).length counts the keys of the dictionary, one
\* per trait.
Generate ==
  /\ pc = "start"
  /\ traitValues' = dbTraitValues
  /\ IF startIndex = 0
     THEN stagingDir' = TRUE /\ fsOps' = Append(fsOps, "mkdir")
     ELSE UNCHANGED <<stagingDir, fsOps>>
  /\ IF isFirstBatchInTraitSet
     THEN stagingFiles' = stagingFiles \cup Downloaded(imageLayers, missingAssets)
     ELSE UNCHANGED stagingFiles
  /\ composites' = <<>>
  /\ IF \/ Len(traits) = 0
        \/ Cardinality(DOMAIN dbTraitValues) = 0
        \/ Len(imageLayers) = 0
     THEN /\ returned' = <<>>
          /\ pc' = "done"
          /\ i' = i
     ELSE /\ i' = startIndex
          /\ pc' = "loop"
          /\ returned' = returned
  /\ UNCHANGED <<configVars, createVars, store, itemVars, samplerVars, otherVars>>

\* line 167, true: generateArtworkForItem is called, lines 232-238
EnterItem ==
  /\ pc = "loop"
  /\ i < endIndex
  /\ traitValuePairs' = <<>>
  /\ hasUnusedTraitValuePair' = FALSE
  /\ retriesRemaining' = numRetries
  /\ pc' = "draw"
  /\ UNCHANGED <<configVars, createVars, traitValues, i, composites, store, returned, ci,
                 orderedLayers, compositeData, inputFilePaths, samplerVars, stagingVars, otherVars>>

\* line 167, false: lines 204-219, the cleanup of the last batch and the
\* return
Return ==
  /\ pc = "loop"
  /\ ~(i < endIndex)
  /\ IF endIndex = supply
     THEN /\ stagingDir' = FALSE
          /\ stagingFiles' = {}
          /\ fsOps' = Append(fsOps, "rmdir")
     ELSE UNCHANGED stagingVars
  /\ returned' = composites
  /\ pc' = "done"
  /\ UNCHANGED <<configVars, createVars, traitValues, i, composites, store, itemVars,
                 samplerVars, otherVars>>

\* line 167, false, when the rmdir of lines 207-216 fails: fs.promises.rmdir
\* takes no callback, its promise rejects and nothing catches it
CleanupThrows ==
  /\ pc = "loop"
  /\ ~(i < endIndex)
  /\ endIndex = supply
  /\ fsOps' = Append(fsOps, "rmdir")
  /\ pc' = "threw"
  /\ UNCHANGED <<configVars, createVars, stagingDir, stagingFiles, traitValues, i, composites,
                 store, returned, itemVars, samplerVars, otherVars>>

\* one iteration of the loop of lines 240-262
DrawAttempt ==
  /\ pc = "draw"
  /\ \E draw \in RandomTraitValues(traits, traitValues) :
       LET hash == TraitsHash(draw)
           unused == IsUniqueTraitsHash(hash, store)
       IN /\ traitValuePairs' = draw
          /\ hasUnusedTraitValuePair' = unused
          /\ retriesRemaining' = retriesRemaining - 1
          /\ IF retriesRemaining - 1 = 0
             THEN \* failedToFindUnusedTraitPair: return null
                  /\ compositeData' = Null
                  /\ pc' = "returned"
                  /\ ci' = ci
             ELSE IF unused
             THEN /\ pc' = "resolve"
                  /\ ci' = 1
                  /\ compositeData' = compositeData
             ELSE /\ pc' = "draw"
                  /\ ci' = ci
                  /\ compositeData' = compositeData
  /\ UNCHANGED <<configVars, createVars, traitValues, i, composites, store, returned,
                 orderedLayers, inputFilePaths, samplerVars, stagingVars, otherVars>>

\* a variant that takes the conflicts from the last to the first
ResolveStepBackwards ==
  /\ pc = "resolve"
  /\ ci <= Len(conflicts)
  /\ traitValuePairs' \in ResolveConflict(traitValuePairs,
                                          conflicts[Len(conflicts) + 1 - ci], traitValues)
  /\ ci' = ci + 1
  /\ UNCHANGED <<configVars, createVars, pc, traitValues, i, composites, store, returned,
                 hasUnusedTraitValuePair, retriesRemaining, orderedLayers,
                 compositeData, inputFilePaths, samplerVars, stagingVars, otherVars>>

\* one iteration of resolveConflicts' loop, lines 374-472
ResolveStep ==
  /\ pc = "resolve"
  /\ ci <= Len(conflicts)
  /\ traitValuePairs' \in ResolveConflict(traitValuePairs, conflicts[ci], traitValues)
  /\ ci' = ci + 1
  /\ UNCHANGED <<configVars, createVars, pc, traitValues, i, composites, store, returned,
                 hasUnusedTraitValuePair, retriesRemaining, orderedLayers,
                 compositeData, inputFilePaths, samplerVars, stagingVars, otherVars>>

\* lines 275-298: the image layers of the resolved draw, sorted, and the plan
PlanLayers ==
  /\ pc = "resolve"
  /\ ci > Len(conflicts)
  /\ traitValuePairs' = SortTraitValuePairs(WithImageLayers(traitValuePairs, imageLayers))
  /\ orderedLayers' = OrderedImageLayerPairs(traitValuePairs', imageLayers)
  /\ inputFilePaths' = [k \in 1..Len(orderedLayers') |->
                          IF orderedLayers'[k].imageLayer = Null THEN NullId
                          ELSE DownloadPathForImageLayer(orderedLayers'[k].imageLayer)]
  /\ pc' = "composite"
  /\ UNCHANGED <<configVars, createVars, traitValues, i, composites, store, returned,
                 hasUnusedTraitValuePair, retriesRemaining, ci, compositeData,
                 samplerVars, stagingVars, otherVars>>

compositeFrame == <<configVars, createVars, traitValues, i, composites, store, returned,
                    traitValuePairs, hasUnusedTraitValuePair, retriesRemaining,
                    ci, orderedLayers, inputFilePaths, samplerVars, stagingVars, otherVars>>

\* compositeImages with no input path, lines 661-664: false, and line 348
CompositeNoInput ==
  /\ pc = "composite"
  /\ Len(orderedLayers) = 0
  /\ compositeData' = Null
  /\ pc' = "returned"
  /\ UNCHANGED compositeFrame

\* compositeImages with several input paths when sharp fails, lines 684-690
CompositeFails ==
  /\ pc = "composite"
  /\ Len(orderedLayers) > 1
  /\ compositeData' = Null
  /\ pc' = "returned"
  /\ UNCHANGED compositeFrame

\* compositeImages with one input path when sharp fails, lines 669-671: the
\* promise rejects and nothing catches it
CompositeThrows ==
  /\ pc = "composite"
  /\ Len(orderedLayers) = 1
  /\ pc' = "threw"
  /\ UNCHANGED <<compositeData, compositeFrame>>

\* lines 310-346: the upload, which may fail (downloadURL undefined, here <<>>)
CompositeSucceeds ==
  /\ pc = "composite"
  /\ Len(orderedLayers) > 0
  /\ \E downloadURL \in {<<>>, <<i>>} :
       compositeData' = [externalURL |-> downloadURL,
                         traits |-> traitValuePairs,
                         traitsHash |-> TraitsHash(traitValuePairs)]
  /\ pc' = "returned"
  /\ UNCHANGED compositeFrame

\* a variant that gives the index up and goes on to the next
NoCompositeDataSkippingIndex ==
  /\ pc = "returned"
  /\ compositeData = Null
  /\ i' = i + 1
  /\ pc' = "loop"
  /\ LeaveItem
  /\ UNCHANGED <<configVars, createVars, traitValues, composites, store, returned,
                 samplerVars, stagingVars, otherVars>>

\* lines 179-182
NoCompositeData ==
  /\ pc = "returned"
  /\ compositeData = Null
  /\ pc' = "loop"
  /\ LeaveItem
  /\ UNCHANGED <<configVars, createVars, traitValues, i, composites, store, returned, samplerVars, stagingVars, otherVars>>

\* a variant that abandons the item whose upload failed
RecordOnlyUploaded ==
  /\ pc = "returned"
  /\ compositeData # Null
  /\ LET composite == CreateComposite(compositeData)
     IN IF composite.externalURL = <<>>
        THEN UNCHANGED <<store, composites, traitValues>>
        ELSE /\ store' = Append(store, composite)
             /\ composites' = Append(composites, composite)
             /\ traitValues' = RemoveUsedAlwaysUniqueTraitValues(traits, traitValues,
                                                                 composite)
  /\ i' = i + 1
  /\ pc' = "loop"
  /\ LeaveItem
  /\ UNCHANGED <<configVars, createVars, returned, samplerVars, stagingVars, otherVars>>

\* lines 184-201
Record ==
  /\ pc = "returned"
  /\ compositeData # Null
  /\ LET composite == CreateComposite(compositeData)
     IN /\ store' = Append(store, composite)
        /\ composites' = Append(composites, composite)
        /\ traitValues' = RemoveUsedAlwaysUniqueTraitValues(traits, traitValues, composite)
  /\ i' = i + 1
  /\ pc' = "loop"
  /\ LeaveItem
  /\ UNCHANGED <<configVars, createVars, returned, samplerVars, stagingVars, otherVars>>

Next ==
  \/ Generate
  \/ EnterItem
  \/ Return
  \/ CleanupThrows
  \/ DrawAttempt
  \/ ResolveStep
  \/ PlanLayers
  \/ CompositeNoInput
  \/ CompositeFails
  \/ CompositeThrows
  \/ CompositeSucceeds
  \/ NoCompositeData
  \/ Record

Spec == Init /\ [][Next]_vars

----------------------------------------------------------------------------
(* One call of randomValue, for every input of the sets below               *)

\* the longest value list handed to randomValue on its own
MaxValues == 2

SamplerRarities == {0, 1, Half, RandomMax - 1, RandomMax}

SamplerValueIds == <<"a1", "a2", "a3", "a4">>

\* every singleton list, of every rarity the precision allows, and the lists
\* of up to MaxValues values over SamplerRarities
SamplerValueLists ==
  {<<TraitValue("a1", rarity)>> : rarity \in (0..RandomMax) \cup {AlwaysUniqueRarity}}
  \cup UNION {{[k \in 1..n |-> TraitValue(SamplerValueIds[k], rarities[k])] :
                 rarities \in [1..n -> SamplerRarities]} : n \in 0..MaxValues}

SamplerInit ==
  /\ traits = <<>>
  /\ dbTraitValues = <<>>
  /\ imageLayers = <<>>
  /\ conflicts = <<>>
  /\ startIndex = 0
  /\ endIndex = 0
  /\ supply = 0
  /\ isFirstBatchInTraitSet = FALSE
  /\ missingAssets = {}
  /\ stagingDir = FALSE
  /\ stagingFiles = {}
  /\ fsOps = <<>>
  /\ OtherIdle
  /\ pc = "idle"
  /\ traitValues = <<>>
  /\ i = 0
  /\ composites = <<>>
  /\ store = <<>>
  /\ returned = <<>>
  /\ NoItem
  /\ CreateIdle
  /\ sValues \in SamplerValueLists
  /\ sAlwaysUnique \in BOOLEAN
  /\ sExclude \in {NullId, "a1", "a2"}
  /\ sResult = Null
  /\ sDraws = 0
  /\ sRandom = 0
  /\ sPc = "called"

\* randomValue(sValues, sAlwaysUnique, sExclude) runs and returns
CallRandomValue ==
  /\ sPc = "called"
  /\ \E run \in RandomValueRuns(sValues, sAlwaysUnique, sExclude) :
       /\ sResult' = run.value
       /\ sDraws' = run.draws
  /\ sPc' = "returned"
  /\ UNCHANGED <<configVars, createVars, pc, traitValues, i, composites, store, returned,
                 itemVars, sValues, sAlwaysUnique, sExclude, sRandom,
                 stagingVars, otherVars>>

SamplerNext == CallRandomValue

SamplerSpec == SamplerInit /\ [][SamplerNext]_vars

ValueIdOf(pairs, traitId) ==
  LET k == FindIndex([j \in 1..Len(pairs) |-> pairs[j].trait.id = traitId])
  IN IF k = 0 THEN NullId ELSE IdOf(pairs[k].traitValue)

\* The generation run under the fairness of its random source and of a
\* compositor that works: each draw of an unused combination, and a
\* successful compositing, happen eventually when they stay possible again
\* and again.  The runs checked under it have one trait, so no conflict
\* rewrites a draw.
FairConfigs ==
  {Config(<<Trait("A", 1, FALSE)>>, [tid \in {"A"} |-> values],
          <<ImageLayer("la1", "a1", "lc", <<4>>), PlainLayer("la2", "a2"),
            PlainLayer("lc", NullId)>>,
          cs, 0, r[1], r[2]) :
     values \in {<<TraitValue("a1", RandomMax)>>, <<TraitValue("a1", Half)>>,
                 <<TraitValue("a1", Half), TraitValue("a2", Half)>>},
     cs \in {<<>>, <<Conflict("A", NullId, "C", NullId, "Trait1None")>>},
     r \in {q \in (0..MaxIndex) \X (0..MaxIndex) : q[2] \in {q[1], MaxIndex}}}

FreshDraw(valueId) ==
  DrawAttempt /\ pc' = "resolve" /\ ValueIdOf(traitValuePairs', "A") = valueId

FairSpec ==
  /\ InitOver(FairConfigs)
  /\ [][Next]_vars
  /\ WF_vars(Next)
  /\ \A valueId \in {NullId, "a1", "a2"} : SF_vars(FreshDraw(valueId))
  /\ SF_vars(CompositeSucceeds)

----------------------------------------------------------------------------
(* Two generate calls of one compositeGroup, for two batches, against the   *)
(* one store of ImageComposite records.  This call runs as above; of the     *)
(* other call, of the batch of the indexes before startIndex, the model      *)
(* keeps the steps that read or write the store.                             *)

\* the composites the other call records
MaxOtherItems == 1

ConcurrentConfigs ==
  {Config(<<Trait("A", 1, FALSE)>>, [tid \in {"A"} |-> values],
          <<ImageLayer("la1", "a1", "lc", <<4>>), PlainLayer("la2", "a2"),
            PlainLayer("lc", NullId)>>,
          cs, MaxOtherItems, end, MaxIndex) :
     values \in {<<TraitValue("a1", Half)>>,
                 <<TraitValue("a1", Half), TraitValue("a2", Half)>>},
     cs \in {<<>>, <<Conflict("A", NullId, "C", NullId, "Trait1None")>>},
     end \in MaxOtherItems..MaxIndex}

ConcurrentInit ==
  /\ RunInit(ConcurrentConfigs)
  /\ oPc = "item"
  /\ oTraitValues = dbTraitValues
  /\ oCompositeData = Null
  /\ oRecorded = 0

\* generateArtworkForItem of the other call, lines 240-346, from its last
\* isUniqueTraitsHash (line 249), which reads the store and finds the draw
\* unused, to its return of a composite.  A call that returns null is made
\* again and leaves no trace.
OtherItem ==
  /\ oPc = "item"
  /\ \E draw \in RandomTraitValues(traits, oTraitValues) :
       /\ IsUniqueTraitsHash(TraitsHash(draw), store)
       /\ \E resolved \in ResolveConflicts(draw, conflicts, oTraitValues) :
            LET sorted == SortTraitValuePairs(WithImageLayers(resolved, imageLayers))
            IN /\ Len(SortedImageLayersInjectingCompanions(sorted, imageLayers)) > 0
               /\ \E downloadURL \in {<<>>, <<oRecorded>>} :
                    oCompositeData' = [externalURL |-> downloadURL,
                                       traits |-> sorted,
                                       traitsHash |-> TraitsHash(sorted)]
  /\ oPc' = "returned"
  /\ UNCHANGED <<configVars, createVars, stagingVars, pc, traitValues, i, composites, store,
                 returned, itemVars, oTraitValues, oRecorded, samplerVars>>

\* lines 184-201 of the other call
OtherRecord ==
  /\ oPc = "returned"
  /\ LET composite == CreateComposite(oCompositeData)
     IN /\ store' = Append(store, composite)
        /\ oTraitValues' = RemoveUsedAlwaysUniqueTraitValues(traits, oTraitValues, composite)
  /\ oRecorded' = oRecorded + 1
  /\ oCompositeData' = Null
  /\ oPc' = IF oRecorded + 1 < MaxOtherItems THEN "item" ELSE "done"
  /\ UNCHANGED <<configVars, createVars, stagingVars, pc, traitValues, i, composites, returned,
                 itemVars, samplerVars>>

ConcurrentNext == Next \/ OtherItem \/ OtherRecord

ConcurrentSpec == ConcurrentInit /\ [][ConcurrentNext]_vars

----------------------------------------------------------------------------
(* One walk of randomValue through the segments, for every random number    *)

WalkRarities == {0, 1, Half, RandomMax}

\* the lists of up to MaxValues values of non-negative rarity
WalkValueLists ==
  UNION {{[k \in 1..n |-> TraitValue(SamplerValueIds[k], rarities[k])] :
            rarities \in [1..n -> WalkRarities]} : n \in 0..MaxValues}

\* randomNumber has returned sRandom, line 536
WalkInit ==
  /\ traits = <<>>
  /\ dbTraitValues = <<>>
  /\ imageLayers = <<>>
  /\ conflicts = <<>>
  /\ startIndex = 0
  /\ endIndex = 0
  /\ supply = 0
  /\ isFirstBatchInTraitSet = FALSE
  /\ missingAssets = {}
  /\ stagingDir = FALSE
  /\ stagingFiles = {}
  /\ fsOps = <<>>
  /\ OtherIdle
  /\ pc = "idle"
  /\ traitValues = <<>>
  /\ i = 0
  /\ composites = <<>>
  /\ store = <<>>
  /\ returned = <<>>
  /\ NoItem
  /\ CreateIdle
  /\ sValues \in WalkValueLists
  /\ sAlwaysUnique = FALSE
  /\ sExclude = NullId
  /\ sResult = Null
  /\ sDraws = 1
  /\ sRandom \in RandomNumberRange
  /\ sPc = "drawn"

\* lines 538-553: the walk, and the return of line 559 (no value is excluded)
WalkStep ==
  /\ sPc = "drawn"
  /\ sResult' = Walk(sValues, sRandom)
  /\ sPc' = "returned"
  /\ UNCHANGED <<configVars, createVars, stagingVars, otherVars, pc, traitValues, i, composites,
                 store, returned, itemVars, sValues, sAlwaysUnique, sExclude,
                 sDraws, sRandom>>

WalkNext == WalkStep

WalkSpec == WalkInit /\ [][WalkNext]_vars

----------------------------------------------------------------------------
(* The trait-value create page (pages/.../values/create.tsx): onSubmit.     *)
(* A text is the sequence of its characters; a number is <<n>>, n scaled    *)
(* by 10^4 as the rarities are, and NaN is <<>>.                             *)

\* the longest text typed into the rarity field
MaxInputLen == 3

InputChars == {" ", "-", ".", "0", "1", "5", "x"}

RarityInputs == UNION {[1..n -> InputChars] : n \in 0..MaxInputLen}

DecimalDigits == {"0", "1", "5"}

DigitValue(c) == CASE c = "0" -> 0 [] c = "1" -> 1 [] c = "5" -> 5

\* String.prototype.trim
RECURSIVE TrimStart(_)
TrimStart(text) ==
  IF Len(text) > 0 /\ text[1] = " "
  THEN TrimStart(SubSeq(text, 2, Len(text)))
  ELSE text

RECURSIVE TrimEnd(_)
TrimEnd(text) ==
  IF Len(text) > 0 /\ text[Len(text)] = " "
  THEN TrimEnd(SubSeq(text, 1, Len(text) - 1))
  ELSE text

Trim(text) == TrimEnd(TrimStart(text))

\* the length of the longest prefix of decimal digits
RECURSIVE DigitsPrefixLen(_)
DigitsPrefixLen(text) ==
  IF Len(text) > 0 /\ text[1] \in DecimalDigits
  THEN 1 + DigitsPrefixLen(SubSeq(text, 2, Len(text)))
  ELSE 0

RECURSIVE IntegerValue(_)
IntegerValue(digits) ==
  IF Len(digits) = 0 THEN 0
  ELSE 10 * IntegerValue(SubSeq(digits, 1, Len(digits) - 1))
       + DigitValue(digits[Len(digits)])

\* the value of the digits after the point, from the k-th on, scaled; the
\* scale keeps TRAITVALUES_RARITY_MAX_PRECISION of them
RECURSIVE FractionValue(_, _)
FractionValue(digits, k) ==
  IF k > Len(digits) \/ k > TRAITVALUES_RARITY_MAX_PRECISION THEN 0
  ELSE DigitValue(digits[k]) * Pow10(TRAITVALUES_RARITY_MAX_PRECISION - k)
       + FractionValue(digits, k + 1)

\* parseFloat: the longest prefix of the text, after its leading white space,
\* that is a decimal literal (sign, digits, point, digits); NaN without one
ParseFloat(text) ==
  LET trimmed == TrimStart(text)
      negative == Len(trimmed) > 0 /\ trimmed[1] = "-"
      unsigned == IF negative THEN SubSeq(trimmed, 2, Len(trimmed)) ELSE trimmed
      intLen == DigitsPrefixLen(unsigned)
      afterInt == SubSeq(unsigned, intLen + 1, Len(unsigned))
      hasPoint == Len(afterInt) > 0 /\ afterInt[1] = "."
      fracLen == IF hasPoint THEN DigitsPrefixLen(SubSeq(afterInt, 2, Len(afterInt)))
                 ELSE 0
      magnitude == IntegerValue(SubSeq(unsigned, 1, intLen)) * RandomMax
                   + FractionValue(SubSeq(afterInt, 2, 1 + fracLen), 1)
  IN IF intLen + fracLen = 0 THEN <<>>
     ELSE <<IF negative THEN 0 - magnitude ELSE magnitude>>

\* TraitValues.create: stores the trait value it is given
CreateTraitValue(traitValue) == traitValue

\* the page is open on a trait: the rarity field is rendered for a
\* rarity-weighted trait only (lines 103-121), and holds any text
CreateInit ==
  /\ traits = <<>>
  /\ dbTraitValues = <<>>
  /\ imageLayers = <<>>
  /\ conflicts = <<>>
  /\ startIndex = 0
  /\ endIndex = 0
  /\ supply = 0
  /\ isFirstBatchInTraitSet = FALSE
  /\ missingAssets = {}
  /\ stagingDir = FALSE
  /\ stagingFiles = {}
  /\ fsOps = <<>>
  /\ OtherIdle
  /\ pc = "idle"
  /\ traitValues = <<>>
  /\ i = 0
  /\ composites = <<>>
  /\ store = <<>>
  /\ returned = <<>>
  /\ NoItem
  /\ SamplerIdle
  /\ cPc = "form"
  /\ cIsAlwaysUnique \in BOOLEAN
  /\ \/ cIsAlwaysUnique /\ cRarityField = <<>>
     \/ ~cIsAlwaysUnique /\ \E text \in RarityInputs : cRarityField = <<text>>
  /\ cTraitValues = <<>>

\* onSubmit, lines 34-66
OnSubmit ==
  /\ cPc = "form"
  /\ LET text == IF cRarityField = <<>> THEN <<"0">> ELSE Trim(cRarityField[1])
         rarity == ParseFloat(text)
         traitValue == [rarity |-> IF cIsAlwaysUnique THEN <<AlwaysUniqueRarity>>
                                   ELSE rarity]
     IN cTraitValues' = Append(cTraitValues, CreateTraitValue(traitValue))
  /\ cPc' = "pushed"
  /\ UNCHANGED <<configVars, stagingVars, otherVars, pc, traitValues, i, composites,
                 store, returned, itemVars, samplerVars, cIsAlwaysUnique, cRarityField>>

CreateNext == OnSubmit

CreateSpec == CreateInit /\ [][CreateNext]_vars

----------------------------------------------------------------------------
(* The claims                                                               *)

\* C1: no two persisted ImageComposite records of the run have the same
\* traitsHash, whatever the traits, trait values and conflicts.
C1_TraitsHashesDistinct ==
  \A j, k \in 1..Len(store) : j # k => store[j].traitsHash # store[k].traitsHash

\* C2: for an always-unique trait whose pool held V values when generate
\* started, no value id of the trait is in two persisted composites, and at
\* most V composites have a non-null value for the trait.
C2_AlwaysUniqueConsumedOnce ==
  \A n \in 1..Len(traits) :
    traits[n].isAlwaysUnique =>
      LET tid == traits[n].id
          carrying == {k \in 1..Len(composites) :
                         ValueIdOf(composites[k].traits, tid) # NullId}
      IN /\ \A j, k \in carrying :
              j # k => ValueIdOf(composites[j].traits, tid)
                         # ValueIdOf(composites[k].traits, tid)
         /\ Cardinality(carrying) <= Len(dbTraitValues[tid])

\* C2 witness: trait A is always-unique and re-drawn by a RandomizeFirst
\* conflict that matches every draw, and both of its values are consumed.
C2_Witness ==
  /\ Len(traits) = 2
  /\ traits[1].isAlwaysUnique
  /\ conflicts = <<Conflict("A", NullId, "B", NullId, "Trait1Random")>>
  /\ Len(composites) = 2
  /\ {ValueIdOf(composites[k].traits, "A") : k \in 1..2} = {"a1", "a2"}
  /\ traitValues["A"] = <<>>

\* C3: every call of generate eventually returns or fails.
C3_GenerateReturns == <>(pc \in {"done", "threw"})

\* generateArtworkForItem returned null because the retries ran out
SamplingExhausted == pc = "returned" /\ compositeData = Null /\ retriesRemaining = 0

\* generateArtworkForItem returned null because compositing failed
CompositeFailed == pc = "returned" /\ compositeData = Null /\ retriesRemaining > 0

\* C4: when the retries run out for index i, nothing is persisted, and the
\* batch goes on with index i + 1.
C4_ExhaustedIndexIsAbandoned ==
  [][SamplingExhausted => (i' = i + 1 /\ store' = store)]_vars

\* C5: when compositing fails for index i, no composite is recorded, a null
\* entry is appended to the returned sequence and the run goes on with i + 1.
C5_FailedCompositeYieldsNull ==
  [][CompositeFailed =>
       (i' = i + 1 /\ store' = store /\ composites' = Append(composites, Null))]_vars

\* C6: the item is abandoned only if none of its (at most 20) attempts drew
\* an unused fingerprint; an unused draw, the 20th included, goes on to the
\* conflict resolution.
C6_AbandonedOnlyWithoutUnusedDraw ==
  /\ pc \in {"draw", "resolve", "composite", "returned"} =>
       numRetries - retriesRemaining <= 20
  /\ SamplingExhausted => ~hasUnusedTraitValuePair

\* C7: one iteration of resolveConflicts on a DropFirst (DropSecond) conflict
\* between value v1 of trait A and value v2 of trait B sets A's (B's) value
\* to null and changes nothing else when the draw has A = v1 and B = v2, and
\* changes no slot of any other draw.
C7_DropResolution ==
  [][(pc = "resolve" /\ ci <= Len(conflicts)) =>
       LET c == conflicts[ci]
           k1 == Trait1Index(traitValuePairs, c)
           k2 == Trait2Index(traitValuePairs, c)
       IN (/\ c.resolutionType \in {"Trait1None", "Trait2None"}
           /\ c.trait1ValueId # NullId /\ c.trait2ValueId # NullId
           /\ k1 # 0 /\ k2 # 0 /\ k1 # k2)
          => IF /\ IdOf(traitValuePairs[k1].traitValue) = c.trait1ValueId
                /\ IdOf(traitValuePairs[k2].traitValue) = c.trait2ValueId
             THEN LET dropped == IF c.resolutionType = "Trait1None" THEN k1 ELSE k2
                  IN traitValuePairs' = [traitValuePairs EXCEPT ![dropped].traitValue = Null]
             ELSE traitValuePairs' = traitValuePairs]_vars

\* C7 witness: the DropFirst conflict between a1 and b1 has acted on the draw
\* (a1, b1): A is null and B is still b1.
C7_Witness ==
  /\ pc = "resolve"
  /\ conflicts = <<Conflict("A", "a1", "B", "b1", "Trait1None")>>
  /\ ci = 2
  /\ ValueIdOf(traitValuePairs, "A") = NullId
  /\ ValueIdOf(traitValuePairs, "B") = "b1"

\* C8: randomValue with the id of the only value of a singleton list excluded
\* returns null, for both settings of the always-unique flag; with an
\* exclusion it never returns the excluded value and draws at most 10 times.
C8_ExcludedValueNeverReturned ==
  (sPc = "returned" /\ sExclude # NullId) =>
     /\ IdOf(sResult) # sExclude
     /\ sDraws <= maxAttempts
     /\ (Len(sValues) = 1 /\ sValues[1].id = sExclude) => sResult = Null

Count(e, s) == Cardinality({k \in 1..Len(s) : s[k] = e})

\* the entries a draw must put into the plan: its non-null layers at their
\* trait's z-index, and the declared companions the catalog holds at theirs
PrimaryEntries(pairs) ==
  {k \in 1..Len(pairs) : pairs[k].imageLayer # Null}

DeclaresCompanion(pair, layers) ==
  /\ pair.imageLayer # Null
  /\ pair.imageLayer.companionLayerId # NullId
  /\ pair.imageLayer.companionLayerZIndex # <<>>
  /\ \E layer \in Range(layers) : layer.id = pair.imageLayer.companionLayerId

\* C9: the plan is non-decreasing in effective z-index, and holds each
\* non-null primary layer of the draw once and each declared companion that
\* the catalog holds once, at the companion's own z-index.
C9_PlanSortedAndComplete ==
  pc = "composite" =>
    /\ \A k \in 1..(Len(orderedLayers) - 1) :
         orderedLayers[k].zIndex <= orderedLayers[k + 1].zIndex
    /\ Len(orderedLayers) =
         Cardinality(PrimaryEntries(traitValuePairs))
         + Cardinality({k \in 1..Len(traitValuePairs) :
                          DeclaresCompanion(traitValuePairs[k], imageLayers)})
    /\ \A e \in Range(orderedLayers) :
         Count(e, orderedLayers) =
           Cardinality({k \in PrimaryEntries(traitValuePairs) :
                          /\ e.imageLayer = traitValuePairs[k].imageLayer
                          /\ e.zIndex = traitValuePairs[k].trait.zIndex})
           + Cardinality({k \in 1..Len(traitValuePairs) :
                          /\ DeclaresCompanion(traitValuePairs[k], imageLayers)
                          /\ e.imageLayer.id = traitValuePairs[k].imageLayer.companionLayerId
                          /\ <<e.zIndex>> = traitValuePairs[k].imageLayer.companionLayerZIndex})

\* C9 witness: the companion of la1 (z-index 4) is planned after the layer of
\* trait B (z-index 2), which separates it from its parent (z-index 1).
C9_Witness ==
  /\ pc = "composite"
  /\ Len(orderedLayers) = 3
  /\ orderedLayers[1].imageLayer.id = "la1"
  /\ orderedLayers[2].imageLayer.id = "lb1"
  /\ orderedLayers[3].imageLayer.id = "lc"
  /\ orderedLayers[3].zIndex = 4

\* C10: with no traits, no trait values or no image layers in scope, generate
\* attempts no item, persists nothing and returns the empty sequence.
C10_EmptyScopeReturnsEarly ==
  (\/ Len(traits) = 0
   \/ \A n \in 1..Len(traits) : dbTraitValues[traits[n].id] = <<>>
   \/ Len(imageLayers) = 0)
  => /\ pc \in {"start", "loop", "done"}
     /\ store = <<>>
     /\ returned = <<>>

\* C11: a generate call has created the staging directories if and only if
\* its startIndex is 0; a call whose endIndex is the supply has removed the
\* staging directory when it has returned, through the loop or through a
\* guard clause; a call whose endIndex is not the supply never removes it.
C11_StagingLifecycle ==
  /\ pc # "start" => (("mkdir" \in Range(fsOps)) <=> startIndex = 0)
  /\ (pc = "done" /\ endIndex = supply) => ~stagingDir
  /\ endIndex # supply => "rmdir" \notin Range(fsOps)

\* generateArtworkForItem returned a composite whose upload failed
UploadFailed ==
  pc = "returned" /\ compositeData # Null /\ compositeData.externalURL = <<>>

C13_MissingLayerHandedAsNull ==
  pc = "composite" =>
    \A k \in 1..Len(orderedLayers) :
      orderedLayers[k].imageLayer.id \notin stagingFiles => inputFilePaths[k] = NullId

\* C14: a failure of the removal of the staging directory never fails the
\* run: once the removal was attempted, generate returns the composites.
C14_CleanupFailureIsSwallowed ==
  "rmdir" \in Range(fsOps) => (pc = "done" /\ returned = composites)

\* C15: in a configuration without conflicts, two concurrent generate calls
\* of one compositeGroup against one store never both persist a composite
\* of one traitsHash.
C15_ConcurrentHashesDistinct ==
  conflicts = <<>> =>
    \A j, k \in 1..Len(store) :
      store[j].traitsHash = store[k].traitsHash => j = k

\* the first value, in the order of the sequence, whose cumulative rarity is
\* at least the random number, null when there is none
FirstCovering(values, randomNumber) ==
  LET covering == {k \in 1..Len(values) : CumulativeRarity(values, k) >= randomNumber}
  IN IF covering = {} THEN Null
     ELSE values[CHOOSE k \in covering : \A j \in covering : k <= j]

\* C16, as stated: on the rarity-weighted path with no excluded value, the
\* walk returns the first value, in the order of the sequence, whose
\* cumulative rarity is at least the random number, and null exactly when
\* the random number exceeds the sum of all the rarities.
C16_NullExactlyAboveTotal ==
  sPc = "returned" =>
    /\ sResult = FirstCovering(sValues, sRandom)
    /\ (sResult = Null) <=> (sRandom > CumulativeRarity(sValues, Len(sValues)))

\* C16, amended: on the rarity-weighted path with no excluded value, the
\* walk returns the first value, in the order of the sequence, whose
\* cumulative rarity is at least the random number, and null exactly when
\* the sequence is empty or the random number exceeds the sum of all the
\* rarities.
C16_WalkReturnsFirstCovering ==
  sPc = "returned" =>
    /\ sResult = FirstCovering(sValues, sRandom)
    /\ (sResult = Null) <=> (\/ sValues = <<>>
                             \/ sRandom > CumulativeRarity(sValues, Len(sValues)))

C16_Witness ==
  /\ sPc = "returned"
  /\ Len(sValues) = 2
  /\ sValues[1].rarity > 0
  /\ sRandom = sValues[1].rarity + sValues[2].rarity
  /\ sResult = sValues[2]

\* C17: after a conflict that matches and whose resolution randomizes a
\* trait, the slot of that trait never holds the value that conflicted: it
\* holds null or a value of the trait's current pool of another id, whether
\* the trait is rarity-weighted or always-unique.
C17_RandomizedSlotDiffers ==
  [][(/\ pc = "resolve"
      /\ ci <= Len(conflicts)
      /\ ci' = ci + 1
      /\ ConflictMatches(traitValuePairs, conflicts[ci])
      /\ conflicts[ci].resolutionType \in {"Trait1Random", "Trait2Random"})
     => LET slot == IF conflicts[ci].resolutionType = "Trait1Random"
                    THEN Trait1Index(traitValuePairs, conflicts[ci])
                    ELSE Trait2Index(traitValuePairs, conflicts[ci])
            old == traitValuePairs[slot].traitValue
            new == traitValuePairs'[slot].traitValue
        IN \/ new = Null
           \/ /\ new \in Range(traitValues[traitValuePairs[slot].trait.id])
              /\ IdOf(new) # IdOf(old)]_vars

PairsConsistent(pairs) ==
  \A k \in 1..Len(pairs) :
    /\ pairs[k].imageLayer # Null =>
         /\ pairs[k].traitValue # Null
         /\ pairs[k].imageLayer.traitValueId = pairs[k].traitValue.id
    /\ pairs[k].traitValue = Null => pairs[k].imageLayer = Null

\* C18: in every ImageComposite produced, a pair with an image layer has a
\* trait value, whose id is the traitValueId of the layer, and a pair
\* without a trait value has no image layer.
C18_LayerBelongsToValue ==
  /\ \A k \in 1..Len(store) : PairsConsistent(store[k].traits)
  /\ \A k \in 1..Len(composites) : PairsConsistent(composites[k].traits)
  /\ compositeData # Null => PairsConsistent(compositeData.traits)

C18_Witness ==
  \E k \in 1..Len(store) :
    \E m, n \in 1..Len(store[k].traits) :
      /\ store[k].traits[m].traitValue = Null
      /\ store[k].traits[n].imageLayer # Null

InItem == pc \in {"draw", "resolve", "composite", "returned"}

\* the always-unique values of the composites recorded so far are in no pool
UsedAlwaysUniqueRemoved ==
  \A n \in 1..Len(traits) :
    traits[n].isAlwaysUnique =>
      \A k \in 1..Len(composites) :
        \A pair \in Range(composites[k].traits) :
          (pair.trait.id = traits[n].id /\ pair.traitValue # Null) =>
            \A m \in 1..Len(traitValues[traits[n].id]) :
              traitValues[traits[n].id][m].id # pair.traitValue.id

\* C19: within one generate call the items are processed one after another
\* in ascending index order: while the item of index i is drawn, resolved or
\* composited, the items of the indexes before it are recorded, one composite
\* each in the order of the indexes, and their always-unique values are out
\* of the pools; a composite is recorded only when generateArtworkForItem
\* returned it, at the end of the sequence, and generate returns the
\* composites in the order in which they were recorded.
C19_ItemsInSequence ==
  /\ [](InItem =>
          /\ startIndex <= i /\ i < endIndex
          /\ Len(store) = i - startIndex
          /\ composites = store
          /\ UsedAlwaysUniqueRemoved)
  /\ [][store' # store =>
          /\ pc = "returned" /\ compositeData # Null
          /\ store' = Append(store, compositeData)
          /\ composites' = Append(composites, compositeData)
          /\ i' = i + 1
          /\ pc' = "loop"]_vars
  /\ []((pc = "done" /\ store # <<>>) => returned = store)

C19_Witness ==
  /\ pc = "draw"
  /\ traits[1].isAlwaysUnique
  /\ Len(store) = 2
  /\ traitValues["A"] = <<>>

\* the draw has the trait, with the value when the conflict names one
Requires(pairs, traitId, traitValueId) ==
  \E k \in 1..Len(pairs) :
    /\ pairs[k].trait.id = traitId
    /\ traitValueId # NullId => IdOf(pairs[k].traitValue) = traitValueId

\* C20: resolveConflicts takes the conflicts in their stored order, each
\* once, and matches each against the draw as the conflicts before it left
\* it: an iteration rewrites the draw only if the draw it finds meets both
\* sides of its conflict, what the conflicts from an iteration on can return
\* is decided by the draw that iteration finds, and the layers are planned
\* after the last conflict.
C20_ConflictsInStoredOrder ==
  /\ [][(pc = "resolve" /\ ci <= Len(conflicts)) =>
          /\ ci' = ci + 1
          /\ traitValuePairs' # traitValuePairs =>
               /\ Requires(traitValuePairs, conflicts[ci].trait1Id,
                           conflicts[ci].trait1ValueId)
               /\ Requires(traitValuePairs, conflicts[ci].trait2Id,
                           conflicts[ci].trait2ValueId)
          /\ ResolveConflictsFrom(traitValuePairs', conflicts, traitValues, ci')
               \subseteq ResolveConflictsFrom(traitValuePairs, conflicts, traitValues, ci)]_vars
  /\ [](pc = "composite" => ci = Len(conflicts) + 1)

\* a draw that the two conflicts resolve differently in the other order
C20_Witness ==
  /\ pc = "resolve"
  /\ ci = 1
  /\ Len(conflicts) = 2
  /\ ResolveConflicts(traitValuePairs, conflicts, traitValues)
       # ResolveConflicts(traitValuePairs, <<conflicts[2], conflicts[1]>>, traitValues)

\* C21: every trait value stored by the create page has a rarity in [0, 1],
\* whatever the text of the rarity field, for an always-unique trait as for
\* a rarity-weighted one.
C21_StoredRarityInUnitInterval ==
  \A k \in 1..Len(cTraitValues) :
    /\ cTraitValues[k].rarity # <<>>
    /\ 0 <= cTraitValues[k].rarity[1]
    /\ cTraitValues[k].rarity[1] <= RandomMax

\* none of the guard clauses of lines 151-164 returns
PassedGuards ==
  /\ Len(traits) > 0
  /\ Cardinality(DOMAIN dbTraitValues) > 0
  /\ Len(imageLayers) > 0

\* C22: when generate has returned after the guard clauses, the sequence it
\* returned has endIndex - startIndex entries, none of them null: the
\* recorded composites of the indexes startIndex, startIndex + 1, ... in
\* that order; and the loop index only advances, by one, when the composite
\* of the item is appended.
C22_OneCompositePerIndex ==
  /\ []((pc = "done" /\ PassedGuards) =>
          /\ Len(returned) = endIndex - startIndex
          /\ \A k \in 1..Len(returned) :
               /\ returned[k] # Null
               /\ returned[k] = store[k]
               /\ returned[k].externalURL \in {<<>>, <<startIndex + k - 1>>})
  /\ [][(pc # "start" /\ i' # i) =>
          /\ compositeData # Null
          /\ i' = i + 1
          /\ composites' = Append(composites, compositeData)]_vars

C22_Witness ==
  /\ pc = "done"
  /\ startIndex = 1
  /\ endIndex = 3
  /\ Len(returned) = 2
  /\ returned[1].externalURL = <<1>>
  /\ returned[2].externalURL = <<2>>

\* C23: an iteration of resolveConflicts keeps the length of the draw and
\* the trait and the image layer of every slot; it changes the traitValue of
\* a slot only when its conflict matches the draw and the slot is that of
\* trait1 or trait2 of the conflict, and a conflict that names a trait
\* absent from the draw, or a value that is not drawn, changes nothing.
C23_ResolveKeepsShape ==
  [][(pc = "resolve" /\ ci <= Len(conflicts)) =>
       LET c == conflicts[ci]
           matched == /\ Requires(traitValuePairs, c.trait1Id, c.trait1ValueId)
                      /\ Requires(traitValuePairs, c.trait2Id, c.trait2ValueId)
       IN /\ Len(traitValuePairs') = Len(traitValuePairs)
          /\ \A k \in 1..Len(traitValuePairs) :
               /\ traitValuePairs'[k].trait = traitValuePairs[k].trait
               /\ traitValuePairs'[k].imageLayer = traitValuePairs[k].imageLayer
               /\ traitValuePairs'[k].traitValue # traitValuePairs[k].traitValue =>
                    /\ matched
                    /\ traitValuePairs[k].trait.id \in {c.trait1Id, c.trait2Id}
          /\ ~matched => traitValuePairs' = traitValuePairs]_vars

\* the conflict between any value of A and any value of B has set B to null
\* and left A and the shape of the draw alone
C23_Witness ==
  /\ pc = "resolve"
  /\ conflicts = <<Conflict("A", NullId, "B", NullId, "Trait2None")>>
  /\ ci = 2
  /\ Len(traitValuePairs) = 2
  /\ traitValuePairs[1].trait.id = "A"
  /\ traitValuePairs[1].traitValue # Null
  /\ traitValuePairs[2].trait.id = "B"
  /\ traitValuePairs[2].traitValue = Null

\* C24: on the rarity-weighted path, randomValue never returns a trait value
\* of rarity 0, wherever the value is in the sequence and whatever the random
\* number, 0 included.
C24_ZeroRarityNeverReturned ==
  (sPc = "returned" /\ sResult # Null) => sResult.rarity # 0
====
